---- MODULE Spec2Model ----
(***************************************************************************)
(* Document tax computation of tabula_cloud_sync/models/documentos.py:     *)
(* round_ext, cal_base_gravada_iva, DocumentoDetalle.calcular_valores and  *)
(* Documento.set_calcular_totales.                                         *)
(*                                                                         *)
(* Representation of Decimal.  Every stored Decimal field is an integer    *)
(* count of hundredths (1.00 is Cent).  An intermediate Decimal expression *)
(* is the exact rational n/d hundredths (d > 0) with a sign e of the       *)
(* infinitesimal error that a Decimal(<float>) factor adds to it: the      *)
(* binary float nearest to p/100 is not p/100, and round_ext sees the      *)
(* difference exactly when the exact product sits on a rounding boundary.  *)
(* The 28-digit context rounding of quotients is far below every boundary  *)
(* distance of the bounded inputs and is not represented.                  *)
(*                                                                         *)
(* The module also holds the life cycle of TabulaCloudService with the     *)
(* threads of its sync loop, one sync cycle on its own                     *)
(* (tabula_cloud_sync/service/base_service.py) and handle_api_error        *)
(* (tabula_cloud_sync/core/exceptions.py), each under a specification of   *)
(* its own.                                                                *)
(***************************************************************************)
EXTENDS Integers, Sequences, FiniteSets, TLC

VARIABLES
    doc,            \* the Documento's scalar fields
    detalles,       \* doc.detalles, the computed DocumentoDetalle records
    sin_descuento,  \* indexes of the lines whose descuento was set to None
    resultado,      \* outcome of set_calcular_totales on the present content
    llamadas,       \* number of set_calcular_totales calls made
    rcall,          \* the direct round_ext and mirror calls and their results
    svc,            \* the TabulaCloudService, its sync thread and config file
    exc             \* the handle_api_error call and the exception it returned

vars == <<doc, detalles, sin_descuento, resultado, llamadas, rcall, svc, exc>>

\* ------------------------------------------------------------------ bounds
MaxDetalles == 2
MaxCantidad == 2
MaxLlamadas == 2
MaxRound == 130
MaxSyncs == 1
MaxErrorCount == 12
MaxStatus == 600
MaxHilos == 2
MaxIntentos == 3

\* ----------------------------------------------------- program constants
\* AfectacionIVAEnum, by the integer codes set_calcular_totales compares with
GRAVADO_IVA == 1
EXONERADO == 2
EXENTO == 3
GRAVADO_PARCIAL == 4

\* ------------------------------------------------------------ arithmetic
Cent == 10 * 10

RECURSIVE Pow10(_)
Pow10(k) == IF k <= 0 THEN 1 ELSE 10 * Pow10(k - 1)

Abs(x) == IF x < 0 THEN -x ELSE x

Sgn(x) == IF x > 0 THEN 1 ELSE IF x < 0 THEN -1 ELSE 0

\* int(): truncation toward zero of a / b, b > 0
Trunc(a, b) == IF a >= 0 THEN a \div b ELSE -((-a) \div b)

RECURSIVE Gcd(_, _)
Gcd(a, b) == IF b = 0 THEN a ELSE Gcd(b, a % b)

\* an exact intermediate Decimal: n/d hundredths
Q(n, d) == [n |-> n, d |-> d, e |-> 0]

\* sign of float(p / 100) - p/100 under IEEE-754 binary64, for the
\* percentages the model enumerates (0.25, 0.5, 0.75, 1.0, 2.0 are exact)
FloatErr(p) ==
    CASE p \in {5, 10} -> 1
      [] p \in {30, -5} -> -1
      [] p \in {0, 25, 50, 75, 100, 200} -> 0

\* q * Decimal(p / 100): the exact product (the fraction p/100 reduced, which
\* leaves the value unchanged) and the sign of the float's error in it
MulFloat(q, p) ==
    IF p = 0 \/ q.n = 0 THEN Q(0, 1)
    ELSE LET g == Gcd(Abs(p), 100)
         IN  [n |-> q.n * (p \div g), d |-> q.d * (100 \div g),
              e |-> Sgn(q.n) * FloatErr(p)]

\* round_ext(num, decimales): hundredths.  factor = 10^decimales; entero =
\* int(num*factor); decimal = num*factor - entero; +1 iff decimal >= 0.5.
\* `scaled` is the rounding granule times d, so that num*factor =
\* num.n / scaled.  For decimales > 2 the stored values are already whole
\* multiples of the granule (num*factor is an integer, decimal = 0).
round_ext(num, decimales) ==
    LET scaled == num.d * (IF decimales >= 0 THEN Cent \div Pow10(decimales)
                                             ELSE Cent * Pow10(-decimales))
        entero0 == Trunc(num.n, scaled)
        resto0  == num.n - entero0 * scaled
        \* a value just above a negative integer truncates one step nearer zero
        entero  == IF num.e = 1 /\ num.n < 0 /\ resto0 = 0
                   THEN entero0 + 1 ELSE entero0
        \* decimal >= 0.5, with a value just below the half staying below
        up      == /\ entero = entero0
                   /\ 2 * resto0 >= scaled
                   /\ ~(num.e = -1 /\ 2 * resto0 = scaled)
    IN  IF Pow10(decimales) > Cent THEN num.n \div num.d
        ELSE (IF up THEN entero + 1 ELSE entero) * (scaled \div num.d)

cal_base_gravada_iva(monto_neto, tasa_iva, proporcion_iva, afectacion_iva) ==
    IF tasa_iva = 0 \/ proporcion_iva = 0 THEN Q(0, 1)
    ELSE IF afectacion_iva = GRAVADO_PARCIAL \/ afectacion_iva = GRAVADO_IVA
         THEN Q(100 * monto_neto * proporcion_iva,
                10000 + tasa_iva * proporcion_iva)
         ELSE Q(0, 1)

\* ------------------------------------------------------ DocumentoDetalle
\* a product of two stored Decimals, and a stored Decimal as an intermediate
Mul(a, b) == Q(a * b, Cent)

Dec(a) == Q(a, 1)

\* the declared field defaults of DocumentoDetalle
DetalleDefaults ==
    [moneda_decimal |-> 1, cantidad |-> Cent, precio |-> 0,
     tasa_cambio |-> Cent, monto_bruto |-> 0, descuento |-> 0,
     descuento_global |-> 0, monto_neto |-> 0, monto_neto_mb |-> 0,
     afectacion_iva |-> GRAVADO_IVA, proporcion_iva |-> 100, tasa_iva |-> 0,
     base_gravada_iva |-> 0, liquidacion_iva |-> 0, base_exenta_iva |-> 0,
     base_gravada_iva_mb |-> 0, liquidacion_iva_mb |-> 0,
     base_exenta_iva_mb |-> 0,
     imputa_iva |-> TRUE, proporcion_imputa_iva |-> 100,
     base_gravada_imputa_iva |-> 0, base_gravada_imputa_iva_mb |-> 0,
     liquidacion_iva_imputa |-> 0, liquidacion_iva_imputa_mb |-> 0,
     base_no_imputa_iva |-> 0, base_no_imputa_iva_mb |-> 0,
     monto_neto_sin_iva |-> 0, monto_neto_sin_iva_mb |-> 0]

\* step 2: monto_bruto, only when precio is truthy
set_monto_bruto(self) ==
    IF self.precio # 0
    THEN [self EXCEPT !.monto_bruto =
            round_ext(Mul(self.precio, self.cantidad), self.moneda_decimal)]
    ELSE self

\* step 3: monto_neto
set_monto_neto(self) ==
    [self EXCEPT !.monto_neto =
        round_ext(Q(self.monto_bruto * Cent
                      - self.descuento * self.cantidad
                      - self.descuento_global * self.cantidad, Cent),
                  self.moneda_decimal)]

\* step 4: monto_neto_mb
set_monto_neto_mb(self) ==
    [self EXCEPT !.monto_neto_mb =
        round_ext(Mul(self.monto_neto, self.tasa_cambio), 0)]

\* step 5: base_gravada_iva, left as supplied when tasa_iva is 0
set_base_gravada_iva(self) ==
    IF self.tasa_iva # 0
    THEN [self EXCEPT !.base_gravada_iva =
            round_ext(cal_base_gravada_iva(self.monto_neto, self.tasa_iva,
                          self.proporcion_iva, self.afectacion_iva),
                      self.moneda_decimal)]
    ELSE self

\* step 6: base_gravada_iva_mb
set_base_gravada_iva_mb(self) ==
    [self EXCEPT !.base_gravada_iva_mb =
        round_ext(Mul(self.base_gravada_iva, self.tasa_cambio),
                  self.moneda_decimal)]

\* set_liquidacion_iva taking the rate of the stored, rounded base
set_liquidacion_iva_de_base_redondeada(self) ==
    IF self.tasa_iva # 0
    THEN [self EXCEPT !.liquidacion_iva =
            round_ext(MulFloat(Dec(self.base_gravada_iva), self.tasa_iva),
                      self.moneda_decimal)]
    ELSE self

\* step 7: liquidacion_iva, from the unrounded base, left as supplied when
\* tasa_iva is 0
set_liquidacion_iva(self) ==
    IF self.tasa_iva # 0
    THEN [self EXCEPT !.liquidacion_iva =
            round_ext(MulFloat(cal_base_gravada_iva(self.monto_neto,
                          self.tasa_iva, self.proporcion_iva,
                          self.afectacion_iva), self.tasa_iva),
                      self.moneda_decimal)]
    ELSE self

\* step 8: liquidacion_iva_mb
set_liquidacion_iva_mb(self) ==
    [self EXCEPT !.liquidacion_iva_mb =
        round_ext(Mul(self.liquidacion_iva, self.tasa_cambio), 0)]

\* step 9: base_exenta_iva
set_base_exenta_iva(self) ==
    IF self.afectacion_iva = GRAVADO_PARCIAL
         \/ self.afectacion_iva = GRAVADO_IVA
    THEN [self EXCEPT !.base_exenta_iva =
            round_ext(Q(100 * self.monto_neto * (100 - self.proporcion_iva),
                        10000 + self.tasa_iva * self.proporcion_iva),
                      self.moneda_decimal)]
    ELSE [self EXCEPT !.base_exenta_iva = self.monto_neto]

\* step 10: base_exenta_iva_mb
set_base_exenta_iva_mb(self) ==
    [self EXCEPT !.base_exenta_iva_mb =
        round_ext(Mul(self.base_exenta_iva, self.tasa_cambio), 0)]

\* step 11: monto_neto_sin_iva, round_ext with its default decimales = 0,
\* reading liquidacion_iva_imputa before step 15 has set it
set_monto_neto_sin_iva(self) ==
    [self EXCEPT !.monto_neto_sin_iva =
        round_ext(Dec(self.monto_neto - self.liquidacion_iva_imputa), 0)]

\* step 12: monto_neto_sin_iva_mb
set_monto_neto_sin_iva_mb(self) ==
    [self EXCEPT !.monto_neto_sin_iva_mb =
        round_ext(Mul(self.monto_neto_sin_iva, self.tasa_cambio), 0)]

\* step 13: base_gravada_imputa_iva, only when imputa_iva
set_base_gravada_imputa_iva(self) ==
    IF self.imputa_iva
    THEN [self EXCEPT !.base_gravada_imputa_iva =
            round_ext(MulFloat(cal_base_gravada_iva(self.monto_neto,
                          self.tasa_iva, self.proporcion_iva,
                          self.afectacion_iva), self.proporcion_imputa_iva),
                      self.moneda_decimal)]
    ELSE self

\* step 14: base_gravada_imputa_iva_mb
set_base_gravada_imputa_iva_mb(self) ==
    [self EXCEPT !.base_gravada_imputa_iva_mb =
        round_ext(Mul(self.base_gravada_imputa_iva, self.tasa_cambio), 0)]

\* step 15: liquidacion_iva_imputa, only when imputa_iva
set_liquidacion_iva_imputa(self) ==
    IF self.imputa_iva
    THEN [self EXCEPT !.liquidacion_iva_imputa =
            round_ext(MulFloat(Dec(self.liquidacion_iva),
                               self.proporcion_imputa_iva),
                      self.moneda_decimal)]
    ELSE self

\* step 16: liquidacion_iva_imputa_mb
set_liquidacion_iva_imputa_mb(self) ==
    [self EXCEPT !.liquidacion_iva_imputa_mb =
        round_ext(Mul(self.liquidacion_iva_imputa, self.tasa_cambio), 0)]

\* step 17: base_no_imputa_iva
set_base_no_imputa_iva(self) ==
    [self EXCEPT !.base_no_imputa_iva =
        round_ext(Dec(self.monto_neto - self.base_gravada_imputa_iva
                        - self.liquidacion_iva_imputa),
                  self.moneda_decimal)]

\* step 18: base_no_imputa_iva_mb
set_base_no_imputa_iva_mb(self) ==
    [self EXCEPT !.base_no_imputa_iva_mb =
        round_ext(Mul(self.base_no_imputa_iva, self.tasa_cambio), 0)]

\* the model validator: the eighteen steps in source order, on the record of
\* the values given to the constructor
calcular_valores(self) ==
    set_base_no_imputa_iva_mb(set_base_no_imputa_iva(
    set_liquidacion_iva_imputa_mb(set_liquidacion_iva_imputa(
    set_base_gravada_imputa_iva_mb(set_base_gravada_imputa_iva(
    set_monto_neto_sin_iva_mb(set_monto_neto_sin_iva(
    set_base_exenta_iva_mb(set_base_exenta_iva(
    set_liquidacion_iva_mb(set_liquidacion_iva(
    set_base_gravada_iva_mb(set_base_gravada_iva(
    set_monto_neto_mb(set_monto_neto(set_monto_bruto(self)))))))))))))))))

\* ------------------------------------------------------------- Documento
\* TipoImpuestoAfectadoEnum members for which the IVA totals are accumulated
IVA_TIPOS == {"IVA", "IVA_RENTA"}

\* a Documento as constructed: the declared defaults of its totals
DocumentoNuevo(md, tc, tipo) ==
    [moneda_decimal |-> md, tasa_cambio |-> tc,
     tipo_impuesto_afectado |-> tipo,
     monto_exonerado |-> 0, monto_exenta |-> 0, subtotal_exo_exe |-> 0,
     subtotal_iva_5 |-> 0, subtotal_iva_10 |-> 0,
     st_base_gravada_imputa_iva |-> 0, st_base_no_imputa_iva |-> 0,
     st_liquidacion_iva_imputa |-> 0, subtotal_imputa_iva |-> 0,
     descuento_item |-> 0, descuento_global |-> 0,
     base_gravada_5 |-> 0, base_gravada_10 |-> 0, iva_5 |-> 0, iva_10 |-> 0,
     monto_total |-> 0,
     monto_exonerado_mb |-> 0, monto_exenta_mb |-> 0,
     base_gravada_5_mb |-> 0, base_gravada_10_mb |-> 0,
     iva_5_mb |-> 0, iva_10_mb |-> 0, monto_total_mb |-> 0]

\* the resets at the head of set_calcular_totales (descuento_item,
\* descuento_global and subtotal_exo_exe are not among them)
reset_totales(self) ==
    [self EXCEPT !.monto_exonerado = 0, !.monto_exenta = 0,
                 !.base_gravada_5 = 0, !.base_gravada_10 = 0,
                 !.iva_5 = 0, !.iva_10 = 0, !.monto_total = 0,
                 !.monto_exonerado_mb = 0, !.monto_exenta_mb = 0,
                 !.base_gravada_5_mb = 0, !.base_gravada_10_mb = 0,
                 !.iva_5_mb = 0, !.iva_10_mb = 0, !.monto_total_mb = 0,
                 !.subtotal_iva_5 = 0, !.subtotal_iva_10 = 0,
                 !.subtotal_imputa_iva = 0,
                 !.st_base_gravada_imputa_iva = 0,
                 !.st_liquidacion_iva_imputa = 0,
                 !.st_base_no_imputa_iva = 0]

\* acumular_exentas taking the whole net of a GRAVADO_PARCIAL line as exempt
acumular_exentas_neto_parcial(self, det) ==
    LET E731 == det.afectacion_iva
        EA008 == det.monto_neto
    IN  [self EXCEPT
          !.monto_exenta = @ + (IF E731 = 3 \/ E731 = 4 THEN EA008 ELSE 0),
          !.monto_exonerado = @ + (IF E731 = 2 THEN EA008 ELSE 0)]

\* the exempt and exonerated buckets of one line
acumular_exentas(self, det) ==
    LET E731 == det.afectacion_iva
        EA008 == det.monto_neto
        E737 == det.base_exenta_iva
    IN  [self EXCEPT
          !.monto_exenta = @ + (IF E731 = 3 THEN EA008 ELSE 0)
                             + (IF E731 = 4 THEN E737 ELSE 0),
          !.monto_exonerado = @ + (IF E731 = 2 THEN EA008 ELSE 0)]

\* acumular_gravadas adding the liability of every taxed line to iva_5
acumular_gravadas_sin_tasa(self, det) ==
    LET E731 == det.afectacion_iva
        E734 == det.tasa_iva
        EA008 == det.monto_neto
        E735 == det.base_gravada_iva
        E736 == det.liquidacion_iva
    IN  [self EXCEPT
          !.subtotal_iva_5 = @
              + (IF E731 = 1 /\ E734 = 5 THEN EA008 ELSE 0)
              + (IF E731 = 4 /\ E734 = 5 THEN E735 + E736 ELSE 0),
          !.subtotal_iva_10 = @
              + (IF E731 = 1 /\ E734 = 10 THEN EA008 ELSE 0)
              + (IF E731 = 4 /\ E734 = 10 THEN E735 + E736 ELSE 0),
          !.iva_5 = @ + (IF E734 # 0 THEN E736 ELSE 0),
          !.iva_10 = @ + (IF E734 = 10 THEN E736 ELSE 0),
          !.base_gravada_5 = @ + (IF E734 = 5 THEN E735 ELSE 0),
          !.base_gravada_10 = @ + (IF E734 = 10 THEN E735 ELSE 0)]

\* the per-rate subtotals, liabilities and bases of one line
acumular_gravadas(self, det) ==
    LET E731 == det.afectacion_iva
        E734 == det.tasa_iva
        EA008 == det.monto_neto
        E735 == det.base_gravada_iva
        E736 == det.liquidacion_iva
    IN  [self EXCEPT
          !.subtotal_iva_5 = @
              + (IF E731 = 1 /\ E734 = 5 THEN EA008 ELSE 0)
              + (IF E731 = 4 /\ E734 = 5 THEN E735 + E736 ELSE 0),
          !.subtotal_iva_10 = @
              + (IF E731 = 1 /\ E734 = 10 THEN EA008 ELSE 0)
              + (IF E731 = 4 /\ E734 = 10 THEN E735 + E736 ELSE 0),
          !.iva_5 = @ + (IF E734 = 5 THEN E736 ELSE 0),
          !.iva_10 = @ + (IF E734 = 10 THEN E736 ELSE 0),
          !.base_gravada_5 = @ + (IF E734 = 5 THEN E735 ELSE 0),
          !.base_gravada_10 = @ + (IF E734 = 10 THEN E735 ELSE 0)]

\* acumular_imputa adding the whole net of a credited line to the
\* non-creditable subtotal
acumular_imputa_neto_completo(self, det) ==
    IF det.imputa_iva
    THEN [self EXCEPT
           !.subtotal_imputa_iva = @ + det.monto_neto,
           !.st_base_gravada_imputa_iva = @ + det.base_gravada_imputa_iva,
           !.st_liquidacion_iva_imputa = @ + det.liquidacion_iva_imputa,
           !.st_base_no_imputa_iva = @ + det.monto_neto]
    ELSE [self EXCEPT !.st_base_no_imputa_iva = @ + det.monto_neto]

\* the input-credit subtotals of one line
acumular_imputa(self, det) ==
    IF det.imputa_iva
    THEN [self EXCEPT
           !.subtotal_imputa_iva = @ + det.monto_neto,
           !.st_base_gravada_imputa_iva = @ + det.base_gravada_imputa_iva,
           !.st_liquidacion_iva_imputa = @ + det.liquidacion_iva_imputa,
           !.st_base_no_imputa_iva = @ + det.base_no_imputa_iva]
    ELSE [self EXCEPT !.st_base_no_imputa_iva = @ + det.monto_neto]

\* acumular_descuentos adding the per-unit discounts, cantidad left out
acumular_descuentos_por_unidad(self, det) ==
    [self EXCEPT
      !.descuento_item = @ + round_ext(Dec(det.descuento), 8),
      !.descuento_global = @ + round_ext(Dec(det.descuento_global), 8)]

\* the discounts of one line
acumular_descuentos(self, det) ==
    [self EXCEPT
      !.descuento_item = @ + round_ext(Mul(det.descuento, det.cantidad), 8),
      !.descuento_global =
          @ + round_ext(Mul(det.descuento_global, det.cantidad), 8)]

\* acumular_total rounding each line to the document's precision before adding
acumular_total_redondeando(self, det) ==
    [self EXCEPT
      !.monto_total = @ + round_ext(Dec(det.monto_neto), self.moneda_decimal),
      !.monto_total_mb = @ + det.monto_neto_mb]

\* the grand total of one line and its base-currency mirror
acumular_total(self, det) ==
    [self EXCEPT !.monto_total = @ + det.monto_neto,
                 !.monto_total_mb = @ + det.monto_neto_mb]

\* mirror rounding to whole units whatever the places asked for
mirror_sin_decimales(monto, tn, td, decimales) ==
    round_ext(Q(monto * tn, td), 0)

\* the currency mirror of the _mb fields, round_ext(monto * tasa, decimales),
\* for a rate given as the fraction tn/td
mirror(monto, tn, td, decimales) == round_ext(Q(monto * tn, td), decimales)

\* total_mb without the exchange rate
total_mb_sin_tasa(monto, tasa_cambio) == round_ext(Dec(monto), 0)

\* mirror of an aggregate into the base currency
total_mb(monto, tasa_cambio) == round_ext(Mul(monto, tasa_cambio), 0)

\* rounding of an aggregate to the document's precision
total_redondeado(monto, moneda_decimal) ==
    round_ext(Dec(monto), moneda_decimal)

\* the roundings and mirrors after the loop
cerrar_totales(self) ==
    LET md == self.moneda_decimal
        tc == self.tasa_cambio
        bg10 == total_redondeado(self.base_gravada_10, md)
        bg5 == total_redondeado(self.base_gravada_5, md)
        iva10 == total_redondeado(self.iva_10, md)
        iva5 == total_redondeado(self.iva_5, md)
    IN  [self EXCEPT
          !.subtotal_exo_exe =
              total_redondeado(self.monto_exonerado + self.monto_exenta, md),
          !.monto_exonerado_mb = total_mb(self.monto_exonerado, tc),
          !.monto_exenta_mb = total_mb(self.monto_exenta, tc),
          !.base_gravada_10 = bg10,
          !.base_gravada_10_mb = total_mb(bg10, tc),
          !.base_gravada_5 = bg5,
          !.base_gravada_5_mb = total_mb(bg5, tc),
          !.iva_10 = iva10,
          !.iva_10_mb = total_mb(iva10, tc),
          !.iva_5 = iva5,
          !.iva_5_mb = total_mb(iva5, tc),
          !.monto_total = total_redondeado(self.monto_total, md)]

\* the loop over self.detalles from line i on.  A line whose descuento is
\* None raises TypeError at `detalle.descuento * detalle.cantidad`, after the
\* IVA block of that line has run; the exception leaves the method with
\* whatever the loop has stored so far.
RECURSIVE plegar(_, _, _, _)
plegar(self, dets, rotos, i) ==
    IF i > Len(dets)
    THEN [doc |-> self, detalles |-> dets, error |-> FALSE]
    ELSE LET iva == self.tipo_impuesto_afectado \in IVA_TIPOS
             det == IF iva
                    THEN [dets[i] EXCEPT !.tasa_cambio = self.tasa_cambio]
                    ELSE dets[i]
             dets1 == [dets EXCEPT ![i] = det]
             s1 == IF iva
                   THEN acumular_imputa(acumular_gravadas(
                            acumular_exentas(self, det), det), det)
                   ELSE self
         IN  IF i \in rotos
             THEN [doc |-> s1, detalles |-> dets1, error |-> TRUE]
             ELSE plegar(acumular_total(acumular_descuentos(s1, det), det),
                         dets1, rotos, i + 1)

\* ---------------------------------------------------- TabulaCloudService
\* self.max_errors
max_errors == 10

\* what the configuration file holds: no file, a file without [API], an
\* [API] section without api_key, the generated template whose api_key is
\* the placeholder YOUR_API_KEY_HERE, a usable file, and a usable file whose
\* [SYNC] section sets interval = -1 and retry_delay = -1
Archivos ==
    {"ausente", "sin_api", "sin_clave", "plantilla", "valido",
     "valido_sync_negativo"}

\* "API" in self.config
TieneAPI(config) ==
    config \in {"sin_clave", "plantilla", "valido", "valido_sync_negativo"}

\* "SYNC" in self.config
TieneSYNC(config) == config = "valido_sync_negativo"

\* api_key and api_key != "YOUR_API_KEY_HERE"
ClaveValida(config) == config \in {"valido", "valido_sync_negativo"}

\* where a sync thread stands in _sync_loop: at the tests of `while
\* self.running` and `if not self.paused`, about to call
\* _execute_sync_with_hooks, or in the time.sleep that ends the turn
Posiciones == {"while", "ciclo", "sleep"}

\* the live threads that self.sync_thread no longer names, counted by
\* position
SinHilos == [p \in Posiciones |-> 0]

\* what one call of _execute_sync_with_hooks did: the perform_sync calls
\* made, the attempt that succeeded (0 for none), whether the error hooks ran
SinCiclo ==
    [hecho |-> FALSE, intentos |-> 0, exito_en |-> 0, ganchos_error |-> FALSE]

\* TabulaCloudService(config_file) as constructed, beside the file it names:
\* hilo is whether self.sync_thread is None, alive or over, pc the position
\* of that thread
ServicioNuevo(archivo) ==
    [archivo |-> archivo, config |-> "vacia", cargada |-> FALSE,
     running |-> FALSE, paused |-> FALSE, session |-> FALSE,
     hilo |-> "ninguno", pc |-> "while", otros |-> SinHilos,
     sync_interval |-> 300, retry_attempts |-> 3, retry_delay |-> 10,
     sync_count |-> 0, error_count |-> 0, ciclo |-> SinCiclo,
     ultima |-> "__init__", solo_config |-> TRUE]

\* _auto_configure: the import fails and FileNotFoundError is raised, or
\* run_post_install returns having generated the template file or nothing
auto_configure(self, auto) ==
    CASE auto = "falla" -> [svc |-> self, error |-> TRUE]
      [] auto = "plantilla" ->
           [svc |-> [self EXCEPT !.archivo = "plantilla"], error |-> FALSE]
      [] OTHER -> [svc |-> self, error |-> FALSE]

\* load_config: config.read leaves self.config alone when there is no file
load_config(self, auto) ==
    LET a == IF self.archivo = "ausente" THEN auto_configure(self, auto)
             ELSE [svc |-> self, error |-> FALSE]
        leida == IF a.svc.archivo = "ausente" THEN a.svc
                 ELSE [a.svc EXCEPT !.config = a.svc.archivo]
        sync == IF TieneSYNC(leida.config)
                THEN [leida EXCEPT !.sync_interval = -1, !.retry_delay = -1]
                ELSE leida
    IN  IF a.error THEN a
        ELSE IF ~TieneAPI(sync.config) THEN [svc |-> sync, error |-> TRUE]
        ELSE [svc |-> [sync EXCEPT !.cargada = TRUE], error |-> FALSE]

initialize_session(self) ==
    IF ~TieneAPI(self.config) THEN [svc |-> self, error |-> TRUE]
    ELSE IF ~ClaveValida(self.config) THEN [svc |-> self, error |-> TRUE]
    ELSE [svc |-> [self EXCEPT !.session = TRUE], error |-> FALSE]

\* the threads running _sync_loop
Vivos(self) ==
    (IF self.hilo = "vivo" THEN 1 ELSE 0)
    + self.otros["while"] + self.otros["ciclo"] + self.otros["sleep"]

\* start: any exception of its steps, the on_start hook included, is logged,
\* running is set to False and the exception is raised again.  A new thread
\* is created and started whatever self.sync_thread was: a thread still alive
\* goes on running without a name
start(self, auto, on_start_ok) ==
    LET l == load_config(self, auto)
        i == initialize_session(l.svc)
        r == [i.svc EXCEPT !.running = TRUE, !.paused = FALSE]
    IN  IF l.error
        THEN [svc |-> [l.svc EXCEPT !.running = FALSE], error |-> TRUE]
        ELSE IF i.error
        THEN [svc |-> [i.svc EXCEPT !.running = FALSE], error |-> TRUE]
        ELSE IF ~on_start_ok
        THEN [svc |-> [r EXCEPT !.running = FALSE], error |-> TRUE]
        ELSE [svc |-> [r EXCEPT
                        !.otros = IF r.hilo = "vivo"
                                  THEN [@ EXCEPT ![r.pc] = @ + 1] ELSE @,
                        !.hilo = "vivo", !.pc = "while"],
              error |-> FALSE]

\* stop: running is set to False; join(timeout=30) and on_stop assign
\* nothing, and what the thread does during the wait are its own steps
stop(self) == [self EXCEPT !.running = FALSE]

\* _execute_sync_with_hooks with the error count left alone on success
execute_sync_with_hooks_sin_reinicio(self, exito) ==
    LET n == self.retry_attempts
        posibles == IF n <= 0 THEN 0
                    ELSE IF self.retry_delay < 0 THEN 1 ELSE n
    IN  IF posibles = 0
        THEN [svc |-> self, intentos |-> 0, exito_en |-> 0,
              ganchos_error |-> FALSE]
        ELSE IF exito \in 1..posibles
        THEN [svc |-> [self EXCEPT !.sync_count = @ + 1],
              intentos |-> exito, exito_en |-> exito,
              ganchos_error |-> FALSE]
        ELSE [svc |-> [self EXCEPT !.error_count = @ + 1],
              intentos |-> posibles, exito_en |-> 0,
              ganchos_error |-> TRUE]

\* _execute_sync_with_hooks, perform_sync succeeding at attempt `exito` (at
\* none when exito is 0): range(retry_attempts) is empty for a count below 1;
\* after a failed attempt that is not the last, time.sleep(retry_delay)
\* raises on a negative delay and ends the attempts; the exception of the
\* last attempt or of the sleep is caught, counted and given to the error
\* hooks
execute_sync_with_hooks(self, exito) ==
    LET n == self.retry_attempts
        posibles == IF n <= 0 THEN 0
                    ELSE IF self.retry_delay < 0 THEN 1 ELSE n
    IN  IF posibles = 0
        THEN [svc |-> self, intentos |-> 0, exito_en |-> 0,
              ganchos_error |-> FALSE]
        ELSE IF exito \in 1..posibles
        THEN [svc |-> [self EXCEPT !.sync_count = @ + 1, !.error_count = 0],
              intentos |-> exito, exito_en |-> exito,
              ganchos_error |-> FALSE]
        ELSE [svc |-> [self EXCEPT !.error_count = @ + 1],
              intentos |-> posibles, exito_en |-> 0,
              ganchos_error |-> TRUE]

\* one step of a thread in _sync_loop from position pc, giving the fields
\* it leaves and its next position ("fin" when the loop is left).  The tests
\* of the flags, the cycle and the sleep are separate steps: the caller's
\* thread runs between them.  time.sleep raises ValueError on a negative
\* length
sync_loop(self, pc, exito) ==
    LET s2 == [self EXCEPT !.error_count = @ + 1]
    IN  CASE pc = "while" ->
               [svc |-> self,
                pc |-> IF ~self.running THEN "fin"
                       ELSE IF ~self.paused THEN "ciclo" ELSE "sleep"]
          [] pc = "ciclo" ->
               [svc |-> execute_sync_with_hooks(self, exito).svc,
                pc |-> "sleep"]
          [] OTHER ->
               IF self.sync_interval >= 0 THEN [svc |-> self, pc |-> "while"]
               ELSE IF s2.error_count >= max_errors
               THEN [svc |-> [s2 EXCEPT !.running = FALSE], pc |-> "fin"]
               ELSE IF s2.retry_delay >= 0 THEN [svc |-> s2, pc |-> "while"]
               ELSE [svc |-> s2, pc |-> "fin"]

\* health_check without the test of self.running
health_check_sin_running(self) ==
    IF ~self.session THEN FALSE
    ELSE IF self.error_count >= max_errors THEN FALSE
    ELSE IF self.hilo # "ninguno" /\ self.hilo # "vivo" THEN FALSE
    ELSE TRUE

health_check(self) ==
    IF ~self.running THEN FALSE
    ELSE IF ~self.session THEN FALSE
    ELSE IF self.error_count >= max_errors THEN FALSE
    ELSE IF self.hilo # "ninguno" /\ self.hilo # "vivo" THEN FALSE
    ELSE TRUE

\* ------------------------------------------------------ handle_api_error
\* handle_api_error with the server-error branch taken above 500 only
handle_api_error_sobre_500(status_code) ==
    LET especifica(tipo, error_code) ==
            [tipo |-> tipo, error_code |-> error_code,
             details |-> {<<"status_code", status_code>>}, attrs |-> {}]
    IN  CASE status_code = 401 ->
               especifica("AuthenticationException", "AUTH_ERROR")
          [] status_code = 403 ->
               especifica("AuthorizationException", "AUTHORIZATION_ERROR")
          [] status_code = 404 ->
               especifica("ResourceNotFoundException", "RESOURCE_NOT_FOUND")
          [] status_code = 429 ->
               especifica("RateLimitException", "RATE_LIMIT_ERROR")
          [] status_code \notin {401, 403, 404, 429} /\ status_code > 500 ->
               especifica("ServiceUnavailableException",
                          "SERVICE_UNAVAILABLE")
          [] OTHER ->
               [tipo |-> "APIException", error_code |-> "API_ERROR",
                details |-> IF status_code # 0
                            THEN {<<"status_code", status_code>>} ELSE {},
                attrs |-> {<<"status_code", status_code>>}]

\* the exception handle_api_error(status_code) returns: its class, its
\* error_code, its details dict and the attributes its class adds.  The
\* specific classes take details={"status_code": ...}; APIException stores
\* self.status_code and copies it into details only when it is truthy.
handle_api_error(status_code) ==
    LET especifica(tipo, error_code) ==
            [tipo |-> tipo, error_code |-> error_code,
             details |-> {<<"status_code", status_code>>}, attrs |-> {}]
    IN  CASE status_code = 401 ->
               especifica("AuthenticationException", "AUTH_ERROR")
          [] status_code = 403 ->
               especifica("AuthorizationException", "AUTHORIZATION_ERROR")
          [] status_code = 404 ->
               especifica("ResourceNotFoundException", "RESOURCE_NOT_FOUND")
          [] status_code = 429 ->
               especifica("RateLimitException", "RATE_LIMIT_ERROR")
          [] status_code \notin {401, 403, 404, 429} /\ status_code >= 500 ->
               especifica("ServiceUnavailableException",
                          "SERVICE_UNAVAILABLE")
          [] OTHER ->
               [tipo |-> "APIException", error_code |-> "API_ERROR",
                details |-> IF status_code # 0
                            THEN {<<"status_code", status_code>>} ELSE {},
                attrs |-> {<<"status_code", status_code>>}]

\* ---------------------------------------------------------------- inputs
Cantidades == {c * Cent : c \in 1..MaxCantidad}

\* constructor arguments of the lines built on their own: every combination
\* of the tax inputs over whole and fractional amounts, a discount larger
\* than the price included
GridInputs ==
    {[DetalleDefaults EXCEPT
        !.precio = pr, !.cantidad = ca, !.descuento = de,
        !.afectacion_iva = af, !.tasa_iva = ta, !.proporcion_iva = pp,
        !.moneda_decimal = md, !.tasa_cambio = tc,
        !.imputa_iva = im, !.proporcion_imputa_iva = pi] :
     pr \in {0, 700, 1050, 10000}, ca \in Cantidades, de \in {0, 250},
     af \in {GRAVADO_IVA, EXONERADO, EXENTO, GRAVADO_PARCIAL},
     ta \in {0, 5, 10}, pp \in {0, 50, 100}, md \in {0, 1},
     tc \in {Cent, Cent + 50}, im \in BOOLEAN, pi \in {30, 100}}

\* constructor arguments outside the documented domains, one at a time
InvalidInputs ==
    LET base == [DetalleDefaults EXCEPT !.precio = 10000, !.tasa_iva = 10]
    IN  {[base EXCEPT !.cantidad = -Cent],
         [base EXCEPT !.tasa_iva = -5],
         [base EXCEPT !.proporcion_iva = 150],
         [base EXCEPT !.proporcion_imputa_iva = 200],
         [base EXCEPT !.tasa_cambio = 0],
         [base EXCEPT !.tasa_cambio = -Cent],
         [base EXCEPT !.moneda_decimal = -1]}

\* constructor arguments that carry values for derived fields, as a record
\* read back from storage does
SuppliedInputs ==
    {[DetalleDefaults EXCEPT
        !.precio = pr, !.afectacion_iva = af, !.tasa_iva = ta,
        !.imputa_iva = im, !.monto_bruto = mb, !.base_gravada_iva = bg,
        !.liquidacion_iva = li, !.base_gravada_imputa_iva = bi,
        !.liquidacion_iva_imputa = lm] :
     pr \in {0, 10000}, af \in {GRAVADO_IVA, EXENTO}, ta \in {0, 10},
     im \in BOOLEAN, mb \in {0, 5000}, bg \in {0, 500}, li \in {0, 50},
     bi \in {0, 500}, lm \in {0, 50}}

DetalleInputs == GridInputs \cup InvalidInputs \cup SuppliedInputs

\* constructor arguments of the lines of a document: one line of each tax
\* treatment at a fractional amount, and two lines of several units with a
\* discount and a global discount, one of them credited at 30%
DocInputs ==
    {[DetalleDefaults EXCEPT
        !.precio = 1050, !.afectacion_iva = t[1],
        !.tasa_iva = t[2], !.proporcion_iva = t[3], !.imputa_iva = t[4]] :
     t \in {<<GRAVADO_IVA, 10, 100, TRUE>>, <<GRAVADO_IVA, 5, 100, FALSE>>,
            <<GRAVADO_IVA, 0, 100, TRUE>>, <<EXONERADO, 0, 100, TRUE>>,
            <<EXENTO, 0, 100, FALSE>>, <<GRAVADO_PARCIAL, 5, 50, TRUE>>}}
    \cup
    {[DetalleDefaults EXCEPT
        !.precio = 10000, !.cantidad = MaxCantidad * Cent,
        !.descuento = 250, !.descuento_global = 125,
        !.afectacion_iva = t[1], !.tasa_iva = t[2],
        !.proporcion_iva = t[3], !.proporcion_imputa_iva = t[4]] :
     t \in {<<GRAVADO_IVA, 10, 100, 100>>, <<GRAVADO_PARCIAL, 10, 50, 30>>}}

\* ---------------------------------------------------------------- states
ExcInit ==
    [status_code |-> 0, tipo |-> "ninguna", error_code |-> "", details |-> {},
     attrs |-> {}, hecho |-> FALSE]

RcallInit ==
    [n |-> 0, d |-> 1, decimales |-> 0, res |-> 0, hecho |-> FALSE,
     tasa |-> Cent, monto |-> 0, ida |-> 0, vuelta |-> 0, espejado |-> FALSE]

Init ==
    /\ doc \in {DocumentoNuevo(md, tc, tipo) :
                  md \in {0, 1}, tc \in {Cent, Cent + 50},
                  tipo \in {"IVA_RENTA", "IVA", "RENTA"}}
    /\ detalles = <<>>
    /\ sin_descuento = {}
    /\ resultado = "ninguno"
    /\ llamadas = 0
    /\ rcall = RcallInit
    /\ svc = ServicioNuevo("valido")
    /\ exc = ExcInit

\* doc.detalles.append(DocumentoDetalle(**args))
AgregarDetalle(args) ==
    /\ Len(detalles) < MaxDetalles
    /\ llamadas = 0
    /\ detalles' = Append(detalles, calcular_valores(args))
    /\ resultado' = "ninguno"
    /\ UNCHANGED <<doc, sin_descuento, llamadas, rcall, svc, exc>>

\* doc.detalles[i].descuento = None: the models do not validate assignment
AsignarDescuentoNone(i) ==
    /\ i \in DOMAIN detalles
    /\ i \notin sin_descuento
    /\ sin_descuento' = sin_descuento \cup {i}
    /\ resultado' = "ninguno"
    /\ UNCHANGED <<doc, detalles, llamadas, rcall, svc, exc>>

\* doc.set_calcular_totales(), returning or raising
SetCalcularTotales ==
    /\ llamadas < MaxLlamadas
    /\ LET r == plegar(reset_totales(doc), detalles, sin_descuento, 1)
       IN  /\ doc' = IF r.error THEN r.doc ELSE cerrar_totales(r.doc)
           /\ detalles' = r.detalles
           /\ resultado' = IF r.error THEN "error" ELSE "ok"
    /\ llamadas' = llamadas + 1
    /\ UNCHANGED <<sin_descuento, rcall, svc, exc>>

Next ==
    \/ \E args \in DocInputs : AgregarDetalle(args)
    \/ \E i \in 1..MaxDetalles : AsignarDescuentoNone(i)
    \/ SetCalcularTotales

Spec == Init /\ [][Next]_vars

\* -------------------------------------------------- a line built on its own
InitDetalle ==
    /\ doc = DocumentoNuevo(1, Cent, "IVA_RENTA")
    /\ detalles = <<>>
    /\ sin_descuento = {}
    /\ resultado = "ninguno"
    /\ llamadas = 0
    /\ rcall = RcallInit
    /\ svc = ServicioNuevo("valido")
    /\ exc = ExcInit

\* DocumentoDetalle(**args)
ConstruirDetalle(args) ==
    /\ detalles = <<>>
    /\ detalles' = <<calcular_valores(args)>>
    /\ UNCHANGED <<doc, sin_descuento, resultado, llamadas, rcall, svc,
                   exc>>

NextDetalle == \E args \in DetalleInputs : ConstruirDetalle(args)

SpecDetalle == InitDetalle /\ [][NextDetalle]_vars

\* ------------------------------------------------------ round_ext called
\* exchange rates below, at and above 1, in hundredths.  Decimal(1)/rate is
\* exact for all but 1.50, whose products with a whole amount are thirds
\* and meet a rounding boundary only where the 28-digit product is exact.
TasasDeCambio == {10, 50, Cent, Cent + 50, 2 * Cent, 4 * Cent}

InitRound ==
    /\ doc = DocumentoNuevo(1, Cent, "IVA_RENTA")
    /\ detalles = <<>>
    /\ sin_descuento = {}
    /\ resultado = "ninguno"
    /\ llamadas = 0
    /\ rcall \in {[RcallInit EXCEPT !.n = n, !.d = d, !.decimales = k,
                                     !.tasa = t] :
                    n \in -MaxRound..MaxRound, d \in {1, 10}, k \in -1..2,
                    t \in TasasDeCambio}
    /\ svc = ServicioNuevo("valido")
    /\ exc = ExcInit

\* round_ext(n/d hundredths, decimales)
LlamarRoundExt ==
    /\ ~rcall.hecho
    /\ rcall' = [rcall EXCEPT !.hecho = TRUE,
                   !.res = round_ext(Q(rcall.n, rcall.d), rcall.decimales)]
    /\ UNCHANGED <<doc, detalles, sin_descuento, resultado, llamadas, svc,
                   exc>>

\* an amount of n units of the precision `decimales` mirrored at the rate and
\* mirrored back at Decimal(1)/rate, both at that precision
EspejarIdaYVuelta ==
    /\ ~rcall.espejado
    /\ rcall.d = 1
    /\ LET k == rcall.decimales
           monto == rcall.n * (IF k >= 0 THEN Cent \div Pow10(k)
                                        ELSE Cent * Pow10(-k))
           ida == mirror(monto, rcall.tasa, Cent, k)
       IN  rcall' = [rcall EXCEPT !.espejado = TRUE, !.monto = monto,
                       !.ida = ida,
                       !.vuelta = mirror(ida, Cent, rcall.tasa, k)]
    /\ UNCHANGED <<doc, detalles, sin_descuento, resultado, llamadas, svc,
                   exc>>

NextRound ==
    \/ LlamarRoundExt
    \/ EspejarIdaYVuelta

SpecRound == InitRound /\ [][NextRound]_vars

\* ------------------------------------------- the service and its thread
InitService ==
    /\ doc = DocumentoNuevo(1, Cent, "IVA_RENTA")
    /\ detalles = <<>>
    /\ sin_descuento = {}
    /\ resultado = "ninguno"
    /\ llamadas = 0
    /\ rcall = RcallInit
    /\ svc \in {ServicioNuevo(a) : a \in Archivos}
    /\ exc = ExcInit

NoService == <<doc, detalles, sin_descuento, resultado, llamadas, rcall, exc>>

\* service.load_config(), returning or raising
LoadConfig(auto) ==
    /\ svc' = [load_config(svc, auto).svc EXCEPT !.ultima = "load_config"]
    /\ UNCHANGED NoService

\* service.initialize_session(), returning or raising
InitializeSession ==
    /\ svc' = [initialize_session(svc).svc EXCEPT
                  !.ultima = "initialize_session", !.solo_config = FALSE]
    /\ UNCHANGED NoService

\* service.start(), returning or raising
Start(auto, on_start_ok) ==
    /\ LET r == start(svc, auto, on_start_ok)
       IN  /\ ~r.error => Vivos(svc) < MaxHilos
           /\ svc' = [r.svc EXCEPT
                        !.ultima = IF r.error THEN "start_fallido"
                                   ELSE "start",
                        !.solo_config = FALSE]
    /\ UNCHANGED NoService

\* service.stop()
Stop ==
    /\ svc' = [stop(svc) EXCEPT !.ultima = "stop", !.solo_config = FALSE]
    /\ UNCHANGED NoService

\* service.pause()
Pause ==
    /\ svc' = [svc EXCEPT !.paused = TRUE, !.ultima = "pause",
                          !.solo_config = FALSE]
    /\ UNCHANGED NoService

\* service.resume()
Resume ==
    /\ svc' = [svc EXCEPT !.paused = FALSE, !.ultima = "resume",
                          !.solo_config = FALSE]
    /\ UNCHANGED NoService

\* service.running = True, as the health-check test sets it
AsignarRunning ==
    /\ svc' = [svc EXCEPT !.running = TRUE, !.ultima = "running = True",
                          !.solo_config = FALSE]
    /\ UNCHANGED NoService

\* a sync thread takes a step of its loop: the thread self.sync_thread
\* names (propio) or one of the others
SyncLoop(propio, pc, exito) ==
    /\ IF propio THEN svc.hilo = "vivo" /\ svc.pc = pc
       ELSE svc.otros[pc] > 0
    /\ LET r == sync_loop(svc, pc, exito)
       IN  /\ r.svc.error_count <= MaxErrorCount
           /\ r.svc.sync_count <= MaxSyncs
           /\ svc' =
                IF propio
                THEN IF r.pc = "fin"
                     THEN [r.svc EXCEPT !.hilo = "muerto", !.pc = "while"]
                     ELSE [r.svc EXCEPT !.pc = r.pc]
                ELSE [r.svc EXCEPT !.otros =
                        [p \in Posiciones |->
                            @[p] - (IF p = pc THEN 1 ELSE 0)
                                 + (IF p = r.pc THEN 1 ELSE 0)]]
    /\ UNCHANGED NoService

NextService ==
    \/ \E auto \in {"falla", "nada", "plantilla"} : LoadConfig(auto)
    \/ InitializeSession
    \/ \E auto \in {"falla", "nada", "plantilla"}, on_start_ok \in BOOLEAN :
          Start(auto, on_start_ok)
    \/ Stop
    \/ Pause
    \/ Resume
    \/ AsignarRunning
    \/ \E propio \in BOOLEAN, pc \in Posiciones, exito \in 0..MaxIntentos :
          SyncLoop(propio, pc, exito)

SpecService == InitService /\ [][NextService]_vars

\* ------------------------------------------------------- one sync cycle
\* a started service whose thread is about to call
\* _execute_sync_with_hooks, with the retry settings a [SYNC] section can
\* give and the counters earlier cycles can have left
InitCiclo ==
    /\ doc = DocumentoNuevo(1, Cent, "IVA_RENTA")
    /\ detalles = <<>>
    /\ sin_descuento = {}
    /\ resultado = "ninguno"
    /\ llamadas = 0
    /\ rcall = RcallInit
    /\ svc \in {[start(ServicioNuevo("valido"), "nada", TRUE).svc EXCEPT
                   !.pc = "ciclo", !.ultima = "start",
                   !.solo_config = FALSE, !.retry_attempts = n,
                   !.retry_delay = d, !.error_count = e, !.sync_count = c] :
                n \in 0..MaxIntentos, d \in {-1, 0, 10},
                e \in 0..(MaxErrorCount - 1), c \in 0..(MaxSyncs - 1)}
    /\ exc = ExcInit

\* the thread runs _execute_sync_with_hooks once; what the call did is kept
\* in svc.ciclo
EjecutarCiclo(exito) ==
    /\ svc.hilo = "vivo"
    /\ svc.pc = "ciclo"
    /\ LET r == execute_sync_with_hooks(svc, exito)
       IN  svc' = [r.svc EXCEPT
                     !.pc = "sleep",
                     !.ciclo = [hecho |-> TRUE, intentos |-> r.intentos,
                                exito_en |-> r.exito_en,
                                ganchos_error |-> r.ganchos_error]]
    /\ UNCHANGED NoService

NextCiclo == \E exito \in 0..MaxIntentos : EjecutarCiclo(exito)

SpecCiclo == InitCiclo /\ [][NextCiclo]_vars

\* ------------------------------------------------ handle_api_error called
InitApi ==
    /\ doc = DocumentoNuevo(1, Cent, "IVA_RENTA")
    /\ detalles = <<>>
    /\ sin_descuento = {}
    /\ resultado = "ninguno"
    /\ llamadas = 0
    /\ rcall = RcallInit
    /\ svc = ServicioNuevo("valido")
    /\ exc \in {[ExcInit EXCEPT !.status_code = c] : c \in 0..MaxStatus}

\* exc = handle_api_error(status_code)
HandleApiError ==
    /\ ~exc.hecho
    /\ LET e == handle_api_error(exc.status_code)
       IN  exc' = [exc EXCEPT !.tipo = e.tipo, !.error_code = e.error_code,
                             !.details = e.details, !.attrs = e.attrs,
                             !.hecho = TRUE]
    /\ UNCHANGED <<doc, detalles, sin_descuento, resultado, llamadas, rcall,
                   svc>>

NextApi == HandleApiError

SpecApi == InitApi /\ [][NextApi]_vars

\* ================================================================= claims
\* one unit of a precision, in hundredths
Unidad(decimales) ==
    IF decimales >= 0 THEN Cent \div Pow10(decimales)
    ELSE Cent * Pow10(-decimales)

RECURSIVE SumaCampo(_, _)
SumaCampo(dets, campo) ==
    IF dets = <<>> THEN 0
    ELSE dets[1][campo] + SumaCampo(Tail(dets), campo)

Calculado == resultado = "ok"

\* C1: every EXENTO or EXONERADO line has base_gravada_iva = 0,
\* liquidacion_iva = 0 and base_exenta_iva = monto_neto.
C1_ExentaSinBaseNiIva ==
    \A i \in DOMAIN detalles :
        detalles[i].afectacion_iva \in {EXENTO, EXONERADO} =>
            /\ detalles[i].base_gravada_iva = 0
            /\ detalles[i].liquidacion_iva = 0
            /\ detalles[i].base_exenta_iva = detalles[i].monto_neto

\* C2: on every line monto_neto differs from base_gravada_iva +
\* liquidacion_iva + base_exenta_iva by at most one unit of moneda_decimal.
C2_NetoAtribuido ==
    \A i \in DOMAIN detalles :
        Abs(detalles[i].monto_neto
              - (detalles[i].base_gravada_iva + detalles[i].liquidacion_iva
                   + detalles[i].base_exenta_iva))
            <= Unidad(detalles[i].moneda_decimal)

\* C3: after set_calcular_totales on an IVA document whose lines are GRAVADO
\* at proportion 100, EXENTO or EXONERADO, the four buckets add up to the sum
\* of the lines' monto_neto.
C3_CubetasCompletas ==
    ( /\ Calculado
      /\ doc.tipo_impuesto_afectado \in IVA_TIPOS
      /\ \A i \in DOMAIN detalles :
            \/ detalles[i].afectacion_iva \in {EXENTO, EXONERADO}
            \/ /\ detalles[i].afectacion_iva = GRAVADO_IVA
               /\ detalles[i].proporcion_iva = 100 )
    => doc.monto_exenta + doc.monto_exonerado + doc.subtotal_iva_5
         + doc.subtotal_iva_10 = SumaCampo(detalles, "monto_neto")

\* C4: after set_calcular_totales, monto_total is the sum of the lines'
\* monto_neto rounded once to the document's moneda_decimal.
C4_TotalSumaLuegoRedondea ==
    Calculado =>
        doc.monto_total = round_ext(Dec(SumaCampo(detalles, "monto_neto")),
                                    doc.moneda_decimal)

RECURSIVE SumaRedondeada(_, _)
SumaRedondeada(dets, decimales) ==
    IF dets = <<>> THEN 0
    ELSE round_ext(Dec(dets[1].monto_neto), decimales)
           + SumaRedondeada(Tail(dets), decimales)

\* C4 witness: totals computed over lines whose separate roundings would add
\* up to something else
C4_Witness ==
    /\ Calculado
    /\ Len(detalles) >= 2
    /\ SumaRedondeada(detalles, doc.moneda_decimal) # doc.monto_total

\* the documented input domains of a line
EntradaValida(det) ==
    /\ det.cantidad >= 0
    /\ det.tasa_iva \in {0, 5, 10}
    /\ det.proporcion_iva \in 0..100
    /\ det.proporcion_imputa_iva \in 0..100
    /\ det.tasa_cambio > 0
    /\ det.moneda_decimal \in 0..8

\* C5: no line record exists for inputs outside the documented domains
\* (they are rejected before anything is computed).
C5_EntradaInvalidaRechazada ==
    \A i \in DOMAIN detalles : EntradaValida(detalles[i])

\* round-half-up away from zero of n/d hundredths at `decimales` places
MedioArriba(n, d, decimales) ==
    LET scaled == d * Unidad(decimales)
        entero == Abs(n) \div scaled
        resto  == Abs(n) - entero * scaled
    IN  Sgn(n) * (IF 2 * resto >= scaled THEN entero + 1 ELSE entero)
               * Unidad(decimales)

\* C6: round_ext is round-half-up for every value, positive or negative: a
\* remainder of magnitude >= 0.5 moves the result away from zero.
C6_RedondeoMedioArriba ==
    rcall.hecho => rcall.res = MedioArriba(rcall.n, rcall.d, rcall.decimales)

\* the totals a caller can read from the document
Totales(d) ==
    [c \in DOMAIN d \ {"moneda_decimal", "tasa_cambio",
                       "tipo_impuesto_afectado"} |-> d[c]]

\* C8: a set_calcular_totales call that raises leaves every total as it was
\* before the call.
C8_FalloSinTotalesParciales ==
    [][(llamadas' = llamadas + 1 /\ resultado' = "error")
         => Totales(doc') = Totales(doc)]_vars

EsMultiplo(x, u) == x % u = 0

\* C9: on every line each _mb field is rounded to 0 places and each derived
\* transaction-currency field to moneda_decimal places.
C9_PrecisionDeCampos ==
    \A i \in DOMAIN detalles :
        LET det == detalles[i]
            u == Unidad(det.moneda_decimal)
        IN  /\ \A c \in {"monto_neto_mb", "base_gravada_iva_mb",
                         "liquidacion_iva_mb", "base_exenta_iva_mb",
                         "base_gravada_imputa_iva_mb",
                         "liquidacion_iva_imputa_mb",
                         "base_no_imputa_iva_mb", "monto_neto_sin_iva_mb"} :
                  EsMultiplo(det[c], Cent)
            /\ \A c \in {"monto_neto", "base_exenta_iva",
                         "base_no_imputa_iva", "monto_neto_sin_iva"} :
                  EsMultiplo(det[c], u)
            /\ ~det.imputa_iva =>
                  det.monto_neto_sin_iva =
                      round_ext(Dec(det.monto_neto
                                      - det.liquidacion_iva_imputa),
                                det.moneda_decimal)

Espejo(monto) == round_ext(Mul(monto, doc.tasa_cambio), 0)

EspejosDeCubetas ==
    /\ doc.monto_exonerado_mb = Espejo(doc.monto_exonerado)
    /\ doc.monto_exenta_mb = Espejo(doc.monto_exenta)
    /\ doc.base_gravada_5_mb = Espejo(doc.base_gravada_5)
    /\ doc.base_gravada_10_mb = Espejo(doc.base_gravada_10)
    /\ doc.iva_5_mb = Espejo(doc.iva_5)
    /\ doc.iva_10_mb = Espejo(doc.iva_10)

\* C10 as stated: after set_calcular_totales every aggregate, monto_total
\* included, has X_mb = round_ext(X * tasa_cambio, 0).
C10_TodoEspejado ==
    Calculado =>
        /\ EspejosDeCubetas
        /\ doc.monto_total_mb = Espejo(doc.monto_total)

\* C10 amended: after set_calcular_totales the six tax aggregates have
\* X_mb = round_ext(X * tasa_cambio, 0), and monto_total_mb is the sum of the
\* lines' monto_neto_mb.
C10_EspejosYTotalAcumulado ==
    Calculado =>
        /\ EspejosDeCubetas
        /\ doc.monto_total_mb = SumaCampo(detalles, "monto_neto_mb")

\* C10 witness: totals computed at a rate other than 1 over taxed and exempt
\* lines, with the accumulated mirror differing from the mirrored total
C10_Witness ==
    /\ Calculado
    /\ doc.tasa_cambio # Cent
    /\ doc.iva_10 > 0
    /\ doc.monto_exenta > 0
    /\ doc.monto_total_mb # Espejo(doc.monto_total)

\* sum of a field over the lines of the given affectations and rates
RECURSIVE SumaSi(_, _, _, _)
SumaSi(dets, campo, afectaciones, tasas) ==
    IF dets = <<>> THEN 0
    ELSE (IF dets[1].afectacion_iva \in afectaciones
               /\ dets[1].tasa_iva \in tasas
          THEN dets[1][campo] ELSE 0)
           + SumaSi(Tail(dets), campo, afectaciones, tasas)

Afectaciones == {GRAVADO_IVA, EXONERADO, EXENTO, GRAVADO_PARCIAL}

Tasas == {0, 5, 10}

\* C11: after set_calcular_totales on an IVA or IVA_RENTA document,
\* monto_exonerado is the sum of monto_neto over the EXONERADO lines and
\* monto_exenta the sum of monto_neto over the EXENTO lines plus the sum of
\* base_exenta_iva over the GRAVADO_PARCIAL lines; no other line contributes.
C11_ExentasYExoneradas ==
    (Calculado /\ doc.tipo_impuesto_afectado \in IVA_TIPOS) =>
        /\ doc.monto_exonerado =
              SumaSi(detalles, "monto_neto", {EXONERADO}, Tasas)
        /\ doc.monto_exenta =
              SumaSi(detalles, "monto_neto", {EXENTO}, Tasas)
                + SumaSi(detalles, "base_exenta_iva", {GRAVADO_PARCIAL},
                         Tasas)

\* C11 witness: totals of a document holding a GRAVADO_PARCIAL line with an
\* exempt share next to an EXONERADO line
C11_Witness ==
    /\ Calculado
    /\ doc.tipo_impuesto_afectado \in IVA_TIPOS
    /\ \E i \in DOMAIN detalles :
          /\ detalles[i].afectacion_iva = GRAVADO_PARCIAL
          /\ detalles[i].base_exenta_iva > 0
          /\ detalles[i].base_exenta_iva < detalles[i].monto_neto
    /\ \E i \in DOMAIN detalles : detalles[i].afectacion_iva = EXONERADO
    /\ doc.monto_exenta > 0
    /\ doc.monto_exonerado > 0

\* the per-rate totals of rate r as sums over the lines
TotalesDeTasa(r, base, iva, subtotal) ==
    /\ base = round_ext(Dec(SumaSi(detalles, "base_gravada_iva",
                                    Afectaciones, {r})), doc.moneda_decimal)
    /\ iva = round_ext(Dec(SumaSi(detalles, "liquidacion_iva",
                                   Afectaciones, {r})), doc.moneda_decimal)
    /\ subtotal =
          SumaSi(detalles, "monto_neto", {GRAVADO_IVA}, {r})
            + SumaSi(detalles, "base_gravada_iva", {GRAVADO_PARCIAL}, {r})
            + SumaSi(detalles, "liquidacion_iva", {GRAVADO_PARCIAL}, {r})

TotalesPorTasa ==
    /\ TotalesDeTasa(5, doc.base_gravada_5, doc.iva_5, doc.subtotal_iva_5)
    /\ TotalesDeTasa(10, doc.base_gravada_10, doc.iva_10,
                      doc.subtotal_iva_10)

\* C12 as stated: after set_calcular_totales on any document, for r in
\* {5, 10} base_gravada_r and iva_r are the rounded sums of base_gravada_iva
\* and liquidacion_iva over the lines with tasa_iva = r, and subtotal_iva_r is
\* the sum of monto_neto over the GRAVADO lines at r plus base_gravada_iva +
\* liquidacion_iva over the GRAVADO_PARCIAL lines at r.
C12_TotalesPorTasaSiempre == Calculado => TotalesPorTasa

\* C12 amended: the same, on a document whose tipo_impuesto_afectado is IVA
\* or IVA_RENTA.
C12_TotalesPorTasaIVA ==
    (Calculado /\ doc.tipo_impuesto_afectado \in IVA_TIPOS) => TotalesPorTasa

\* C12 witness: totals of an IVA document with a GRAVADO_PARCIAL line at 5
\* next to a line at 10
C12_Witness ==
    /\ Calculado
    /\ doc.tipo_impuesto_afectado \in IVA_TIPOS
    /\ \E i \in DOMAIN detalles :
          /\ detalles[i].afectacion_iva = GRAVADO_PARCIAL
          /\ detalles[i].tasa_iva = 5
    /\ \E i \in DOMAIN detalles : detalles[i].tasa_iva = 10
    /\ doc.subtotal_iva_5 > 0
    /\ doc.iva_5 > 0
    /\ doc.iva_10 > 0

RECURSIVE SumaDescuento(_, _)
SumaDescuento(dets, campo) ==
    IF dets = <<>> THEN 0
    ELSE round_ext(Mul(dets[1][campo], dets[1].cantidad), 8)
           + SumaDescuento(Tail(dets), campo)

\* C13: after the first set_calcular_totales on a freshly constructed
\* document of any tipo_impuesto_afectado, descuento_item is the sum over the
\* lines of round_ext(descuento * cantidad, 8) and descuento_global the sum
\* of round_ext(descuento_global * cantidad, 8).
C13_DescuentosAcumulados ==
    (Calculado /\ llamadas = 1) =>
        /\ doc.descuento_item = SumaDescuento(detalles, "descuento")
        /\ doc.descuento_global = SumaDescuento(detalles, "descuento_global")

\* C13 witness: first totals of a RENTA document with a discounted line of
\* more than one unit
C13_Witness ==
    /\ Calculado
    /\ llamadas = 1
    /\ doc.tipo_impuesto_afectado = "RENTA"
    /\ \E i \in DOMAIN detalles :
          /\ detalles[i].cantidad > Cent
          /\ detalles[i].descuento > 0
          /\ detalles[i].descuento_global > 0
    /\ doc.descuento_item > 0
    /\ doc.descuento_global > 0

\* the lines C15 is about: GRAVADO at proportion 100 and rate 5 or 10
TotalmenteGravado(det) ==
    /\ det.afectacion_iva = GRAVADO_IVA
    /\ det.proporcion_iva = 100
    /\ det.tasa_iva \in {5, 10}

\* C15: on every fully taxed line (GRAVADO, proporcion_iva 100, rate 5 or
\* 10, any net amount) base_gravada_iva + liquidacion_iva = monto_neto and
\* base_exenta_iva = 0.
C15_GravadoReconcilia ==
    \A i \in DOMAIN detalles :
        TotalmenteGravado(detalles[i]) =>
            /\ detalles[i].base_gravada_iva + detalles[i].liquidacion_iva
                  = detalles[i].monto_neto
            /\ detalles[i].base_exenta_iva = 0

\* C18: on every line monto_neto_sin_iva = monto_neto -
\* liquidacion_iva_imputa, the credited VAT of the same computed line.
C18_NetoSinIvaImputado ==
    \A i \in DOMAIN detalles :
        detalles[i].monto_neto_sin_iva =
            detalles[i].monto_neto - detalles[i].liquidacion_iva_imputa

\* C19: calcular_valores computes in dependency order, no step reading a
\* derived field before the step that computes it: every step that reads
\* derived fields, run again on the finished line, finds the values it read
\* and leaves the line as it is.
C19_OrdenDeDependencias ==
    \A i \in DOMAIN detalles :
        LET det == detalles[i]
        IN  /\ set_monto_neto(det) = det
            /\ set_monto_neto_mb(det) = det
            /\ set_base_gravada_iva(det) = det
            /\ set_base_gravada_iva_mb(det) = det
            /\ set_liquidacion_iva(det) = det
            /\ set_liquidacion_iva_mb(det) = det
            /\ set_base_exenta_iva(det) = det
            /\ set_base_exenta_iva_mb(det) = det
            /\ set_monto_neto_sin_iva(det) = det
            /\ set_monto_neto_sin_iva_mb(det) = det
            /\ set_base_gravada_imputa_iva(det) = det
            /\ set_base_gravada_imputa_iva_mb(det) = det
            /\ set_liquidacion_iva_imputa(det) = det
            /\ set_liquidacion_iva_imputa_mb(det) = det
            /\ set_base_no_imputa_iva(det) = det
            /\ set_base_no_imputa_iva_mb(det) = det

\* the lines C20 is about: rate other than 0, GRAVADO or GRAVADO_PARCIAL
Gravado(det) ==
    /\ det.tasa_iva # 0
    /\ det.afectacion_iva \in {GRAVADO_IVA, GRAVADO_PARCIAL}

\* the rate applied to the stored, rounded base of a line
IvaDeBaseRedondeada(det) ==
    round_ext(MulFloat(Dec(det.base_gravada_iva), det.tasa_iva),
              det.moneda_decimal)

\* the rate applied to the unrounded base of a line,
\* 100 * monto_neto * proporcion_iva / (10000 + tasa_iva * proporcion_iva)
IvaDeBaseSinRedondear(det) ==
    round_ext(MulFloat(Q(100 * det.monto_neto * det.proporcion_iva,
                         10000 + det.tasa_iva * det.proporcion_iva),
                       det.tasa_iva),
              det.moneda_decimal)

\* C20 as stated: on every line with rate other than 0 and affectation
\* GRAVADO or GRAVADO_PARCIAL, liquidacion_iva =
\* round_ext(base_gravada_iva * tasa_iva/100, moneda_decimal) with
\* base_gravada_iva the rounded base stored on the line.
C20_IvaDeBaseRedondeada ==
    \A i \in DOMAIN detalles :
        Gravado(detalles[i]) =>
            detalles[i].liquidacion_iva = IvaDeBaseRedondeada(detalles[i])

\* C20 amended: on every such line liquidacion_iva is the rate applied to
\* the unrounded base, rounded to moneda_decimal.
C20_IvaDeBaseSinRedondear ==
    \A i \in DOMAIN detalles :
        Gravado(detalles[i]) =>
            detalles[i].liquidacion_iva = IvaDeBaseSinRedondear(detalles[i])

\* C20 witness: a taxed line on which the two bases give different VAT
C20_Witness ==
    \E i \in DOMAIN detalles :
        /\ Gravado(detalles[i])
        /\ detalles[i].monto_neto > 0
        /\ detalles[i].liquidacion_iva # IvaDeBaseRedondeada(detalles[i])

\* the round trip of a mirrored amount ends within one unit of the amount
IdaYVueltaCercana ==
    Abs(rcall.vuelta - rcall.monto) <= Unidad(rcall.decimales)

\* C14 as stated: for every amount at precision p and every exchange rate
\* above 0, round_ext(round_ext(amount * rate, p) * (1/rate), p) differs from
\* amount by at most one unit of precision p.
C14_IdaYVueltaTodaTasa == rcall.espejado => IdaYVueltaCercana

\* C14 amended: the same for every exchange rate of 1 or more.
C14_IdaYVueltaTasaMayor ==
    (rcall.espejado /\ rcall.tasa >= Cent) => IdaYVueltaCercana

\* C14 witness: a round trip at a rate above 1 that rounds on the way out and
\* comes back one unit away from the amount
C14_Witness ==
    /\ rcall.espejado
    /\ rcall.tasa > Cent
    /\ rcall.ida # rcall.monto
    /\ rcall.vuelta # rcall.monto

\* the points of the life cycle at which the service is not in service
FueraDeServicio ==
    \/ svc.ultima = "__init__"
    \/ svc.ultima = "load_config" /\ svc.solo_config
    \/ svc.ultima = "start_fallido"
    \/ svc.ultima = "stop"

\* C16 as stated: health_check returns False in every state where the
\* service is not running or has no session (initially, after load_config
\* alone, after a failed start, after stop), and True once the configuration
\* is loaded, the session is initialized and running is True.
C16_SaludSegunEstado ==
    /\ (~svc.running \/ ~svc.session) => ~health_check(svc)
    /\ FueraDeServicio => ~health_check(svc)
    /\ (svc.cargada /\ svc.session /\ svc.running) => health_check(svc)

\* C16 amended: False as stated; True once the configuration is loaded, the
\* session is initialized, running is True, error_count is below max_errors
\* and the sync thread, if one was started, is alive.
C16_SaludSegunEstadoYErrores ==
    /\ (~svc.running \/ ~svc.session) => ~health_check(svc)
    /\ FueraDeServicio => ~health_check(svc)
    /\ ( /\ svc.cargada /\ svc.session /\ svc.running
         /\ svc.error_count < max_errors
         /\ svc.hilo \in {"ninguno", "vivo"} )
       => health_check(svc)

\* C16 witness: a started service that has synchronized and then failed some
\* turns is healthy
C16_Witness ==
    /\ svc.ultima = "start"
    /\ svc.hilo = "vivo"
    /\ svc.sync_count > 0
    /\ svc.error_count > 0
    /\ health_check(svc)

\* the exception class of each status code
TipoDeCodigo(c) ==
    IF c = 401 THEN "AuthenticationException"
    ELSE IF c = 403 THEN "AuthorizationException"
    ELSE IF c = 404 THEN "ResourceNotFoundException"
    ELSE IF c = 429 THEN "RateLimitException"
    ELSE IF c >= 500 THEN "ServiceUnavailableException"
    ELSE "APIException"

\* C17: handle_api_error maps 401, 403, 404, 429, every code from 500 up and
\* every other code each to its one exception class, and the exception
\* records the status code: in status_code for APIException, in
\* details["status_code"] for the others.
C17_ExcepcionPorCodigo ==
    exc.hecho =>
        /\ exc.tipo = TipoDeCodigo(exc.status_code)
        /\ IF exc.tipo = "APIException"
           THEN <<"status_code", exc.status_code>> \in exc.attrs
           ELSE <<"status_code", exc.status_code>> \in exc.details

\* C17 witness: the exception returned for the first server-error code
C17_Witness ==
    /\ exc.hecho
    /\ exc.status_code = 500
    /\ exc.tipo = "ServiceUnavailableException"


\* the credited base and VAT of a line as the proration gives them: the
\* taxable base and the VAT of the line scaled by proporcion_imputa_iva/100
BaseImputaProrrateada(det) ==
    round_ext(MulFloat(cal_base_gravada_iva(det.monto_neto, det.tasa_iva,
                  det.proporcion_iva, det.afectacion_iva),
                  det.proporcion_imputa_iva),
              det.moneda_decimal)

IvaImputaProrrateada(det) ==
    round_ext(MulFloat(Dec(det.liquidacion_iva), det.proporcion_imputa_iva),
              det.moneda_decimal)

\* C21: on every line with imputa_iva set the credited base and the credited
\* VAT are the taxable base and the VAT scaled by proporcion_imputa_iva/100
\* and rounded to moneda_decimal; on every line with imputa_iva unset both
\* are 0 whatever was supplied; and the taxable base and the VAT are 0
\* whenever the rate is 0.
C21_ProrrateoDeCredito ==
    \A i \in DOMAIN detalles :
        LET det == detalles[i]
        IN  /\ det.imputa_iva =>
                /\ det.base_gravada_imputa_iva = BaseImputaProrrateada(det)
                /\ det.liquidacion_iva_imputa = IvaImputaProrrateada(det)
            /\ ~det.imputa_iva =>
                /\ det.base_gravada_imputa_iva = 0
                /\ det.liquidacion_iva_imputa = 0
            /\ det.tasa_iva = 0 =>
                /\ det.base_gravada_iva = 0
                /\ det.liquidacion_iva = 0

\* C22: on every line base_no_imputa_iva = monto_neto -
\* base_gravada_imputa_iva - liquidacion_iva_imputa, and with imputa_iva
\* unset base_no_imputa_iva is the whole monto_neto.
C22_BaseNoImputada ==
    \A i \in DOMAIN detalles :
        LET det == detalles[i]
        IN  /\ det.base_no_imputa_iva =
                  det.monto_neto - det.base_gravada_imputa_iva
                                 - det.liquidacion_iva_imputa
            /\ ~det.imputa_iva => det.base_no_imputa_iva = det.monto_neto

\* C23: in every reachable state, after construction and after any number
\* of set_calcular_totales calls, the base-currency mirror of each line
\* agrees with the line's own inputs: monto_neto_mb =
\* round_ext(monto_neto * tasa_cambio, 0).
C23_EspejoSegunTasaDeLinea ==
    \A i \in DOMAIN detalles :
        detalles[i].monto_neto_mb =
            round_ext(Mul(detalles[i].monto_neto, detalles[i].tasa_cambio), 0)

\* C24: set_calcular_totales is idempotent: a second call right after a
\* first one on the unchanged document leaves every total at the value it
\* had after the first call.
C24_TotalesIdempotentes ==
    [][(/\ llamadas >= 1
        /\ resultado = "ok"
        /\ llamadas' = llamadas + 1
        /\ resultado' = "ok") => Totales(doc') = Totales(doc)]_vars

\* C25: after set_calcular_totales on a document of tipo IVA or IVA_RENTA
\* the three input-credit subtotals add up to the sum of monto_neto over
\* all lines, whatever the mix of lines with imputa_iva set and unset.
C25_CreditoConservado ==
    (Calculado /\ doc.tipo_impuesto_afectado \in IVA_TIPOS) =>
        doc.st_base_gravada_imputa_iva + doc.st_liquidacion_iva_imputa
            + doc.st_base_no_imputa_iva
          = SumaCampo(detalles, "monto_neto")

\* C25 witness: totals computed over a credited line that carries credited
\* VAT together with a line that is not credited
C25_Witness ==
    /\ Calculado
    /\ doc.tipo_impuesto_afectado \in IVA_TIPOS
    /\ doc.st_liquidacion_iva_imputa > 0
    /\ \E i, j \in DOMAIN detalles :
          /\ detalles[i].imputa_iva
          /\ detalles[i].liquidacion_iva_imputa > 0
          /\ detalles[i].base_no_imputa_iva > 0
          /\ ~detalles[j].imputa_iva
          /\ detalles[j].monto_neto > 0

\* C26: a computed line is a fixed point of the computation: a line built
\* from the complete field values of a computed line equals it in every
\* field.
C26_LineaPuntoFijo ==
    \A i \in DOMAIN detalles :
        calcular_valores(detalles[i]) = detalles[i]


\* the threads standing at position p
EnPosicion(self, p) ==
    (IF self.hilo = "vivo" /\ self.pc = p THEN 1 ELSE 0) + self.otros[p]

\* a step in which a thread runs _execute_sync_with_hooks, and so calls
\* perform_sync
CicloEjecutado ==
    EnPosicion(svc', "ciclo") < EnPosicion(svc, "ciclo")

\* C27: once error_count has reached max_errors through failed sync cycles
\* the loop stops: the one thread of a service that was started and then
\* left alone runs no sync cycle, and so makes no perform_sync call, from a
\* state whose error_count is max_errors or more (with a sync_interval that
\* is not negative only failed cycles count errors).
C27_BucleDetenidoEnMaxErrores ==
    [][(/\ CicloEjecutado
        /\ svc.ultima = "start"
        /\ Vivos(svc) = 1
        /\ svc.sync_interval >= 0) => svc.error_count < max_errors]_vars

\* C28 as stated: with retry_attempts >= 1 one sync cycle calls perform_sync
\* at most retry_attempts times and never after a successful attempt;
\* sync_count grows by exactly 1 and error_count is reset to 0 iff some
\* attempt succeeded; error_count grows by exactly 1 and the error hooks run
\* iff all retry_attempts attempts failed.
C28_CicloConReintentos ==
    [][(svc'.ciclo.hecho /\ ~svc.ciclo.hecho /\ svc.retry_attempts >= 1) =>
          /\ svc'.ciclo.intentos <= svc.retry_attempts
          /\ svc'.ciclo.exito_en # 0 =>
                svc'.ciclo.intentos = svc'.ciclo.exito_en
          /\ (svc'.sync_count = svc.sync_count + 1 /\ svc'.error_count = 0)
                <=> svc'.ciclo.exito_en # 0
          /\ (/\ svc'.error_count = svc.error_count + 1
              /\ svc'.ciclo.ganchos_error)
                <=> (/\ svc'.ciclo.exito_en = 0
                     /\ svc'.ciclo.intentos = svc.retry_attempts)]_vars

\* C28 amended: the same for retry_attempts >= 1 and retry_delay >= 0.
C28_CicloConReintentosYEspera ==
    [][(/\ svc'.ciclo.hecho /\ ~svc.ciclo.hecho
        /\ svc.retry_attempts >= 1 /\ svc.retry_delay >= 0) =>
          /\ svc'.ciclo.intentos <= svc.retry_attempts
          /\ svc'.ciclo.exito_en # 0 =>
                svc'.ciclo.intentos = svc'.ciclo.exito_en
          /\ (svc'.sync_count = svc.sync_count + 1 /\ svc'.error_count = 0)
                <=> svc'.ciclo.exito_en # 0
          /\ (/\ svc'.error_count = svc.error_count + 1
              /\ svc'.ciclo.ganchos_error)
                <=> (/\ svc'.ciclo.exito_en = 0
                     /\ svc'.ciclo.intentos = svc.retry_attempts)]_vars

\* C28 witness: a cycle that succeeded at its second attempt of three and
\* was counted
C28_Witness ==
    /\ svc.ciclo.hecho
    /\ svc.retry_attempts = 3
    /\ svc.retry_delay >= 0
    /\ svc.ciclo.exito_en = 2
    /\ svc.ciclo.intentos = 2
    /\ svc.sync_count = 1
    /\ svc.error_count = 0

\* C29: while the service is paused, from the return of pause() until
\* resume() is called, no thread starts a sync cycle, under every
\* interleaving of the caller and the sync thread.
C29_SinCicloEnPausa ==
    [][CicloEjecutado => ~svc.paused]_vars

\* C30: whatever the sequence of start() and stop() calls, at most one
\* thread is running the sync loop.
C30_UnSoloHilo == Vivos(svc) <= 1

====
